---------------------------- MODULE Spec2Model ----------------------------
(***************************************************************************)
(* Model of the local credential and project-cache store of sex-cli        *)
(* (src/src/config.rs): the in-memory Config, the config.json file on      *)
(* disk and the OS secret store (keyring), with the operations of Config   *)
(* and Organization as atomic actions.                                     *)
(*                                                                         *)
(* Strings that the code only compares or copies (organization names,      *)
(* slugs, tokens, error messages) are TLA+ strings.  A project name is a    *)
(* sequence of Unicode code points; bytes are numbers 0..255; base64 text  *)
(* is a sequence of alphabet indices 0..63 with 64 for the padding '='.    *)
(***************************************************************************)
EXTENDS Integers, Sequences, FiniteSets, TLC

VARIABLES
    config,   \* the Config value held by the running process
    file,     \* config.json on disk
    keyring,  \* the OS secret store: entry -> stored password
    last,     \* the call that ran last, its arguments and what it returned
    ops       \* number of calls made so far

vars == <<config, file, keyring, last, ops>>

---------------------------------------------------------------------------
(* Program constants *)

KEYRING_SERVICE == "sex-cli"
KEYRING_USERNAME == "project-encryption-key"
PROJECT_KEY_LENGTH == 32
APP_NAME == "sex-cli"
AUTH_TOKEN_USERNAME == "auth-token"

\* secretbox::NONCEBYTES and secretbox::MACBYTES of the sodiumoxide library
NONCEBYTES == 24
MACBYTES == 16

\* get_config_path(): dirs::config_dir() joined with "sex-cli", "config.json"
ConfigDir == "~/.config" \o "/" \o "sex-cli"
ConfigPath == ConfigDir \o "/" \o "config.json"

---------------------------------------------------------------------------
(* Bounds and input sets *)

\* calls and outside events that write (to the Config, the file or the
\* secret store) in one behaviour; calls that only read are not counted
MaxOps == 3

OrgNames == {"acme", "beta"}
OrgSlugs == {"acme-org", "acme-eu", "beta-org"}

\* the (name, slug) pairs given to add_organization
OrgInputs == {<<"acme", "acme-org">>, <<"acme", "acme-eu">>, <<"beta", "beta-org">>}
ProjectSlugs == {"web"}
Tokens == {"tok-123"}

\* project names: "" and "We" followed by U+00E9 (two bytes in UTF-8)
ProjectNames == {<< >>, <<87, 233>>}

Fill(n, b) == [i \in 1..n |-> b]

\* values drawn by rand::thread_rng().fill_bytes and secretbox::gen_nonce
RandomKeys == {Fill(PROJECT_KEY_LENGTH, 17), [i \in 1..PROJECT_KEY_LENGTH |-> 200 + i]}
RandomNonces == {Fill(NONCEBYTES, 1), [i \in 1..NONCEBYTES |-> 2 * i]}

---------------------------------------------------------------------------
(* Result values: Result<T>, Option<T> and Option<Result<T>> of the code.  *)
(* tag is "Ok", "Err", "None", "Some" or "Panic" (the call panicked); val  *)
(* is the carried value and err the error message.                         *)

Ok(v) == [tag |-> "Ok", val |-> v, err |-> ""]
Err(msg) == [tag |-> "Err", val |-> << >>, err |-> msg]
None == [tag |-> "None", val |-> << >>, err |-> ""]
Some(v) == [tag |-> "Some", val |-> v, err |-> ""]
Panic(msg) == [tag |-> "Panic", val |-> << >>, err |-> msg]
Unit == << >>

---------------------------------------------------------------------------
(* base64::engine::general_purpose::STANDARD *)

PAD == 64

Base64OutLen(n) == 4 * ((n + 2) \div 3)

ByteAt(b, i) == IF i <= Len(b) THEN b[i] ELSE 0

Base64Char(b, i) ==
    LET g == (i - 1) \div 4
        pos == (i - 1) % 4
        b0 == ByteAt(b, 3 * g + 1)
        b1 == ByteAt(b, 3 * g + 2)
        b2 == ByteAt(b, 3 * g + 3)
    IN  CASE pos = 0 -> b0 \div 4
          [] pos = 1 -> (b0 % 4) * 16 + (b1 \div 16)
          [] pos = 2 -> IF 3 * g + 2 > Len(b) THEN PAD
                        ELSE (b1 % 16) * 4 + (b2 \div 64)
          [] OTHER   -> IF 3 * g + 3 > Len(b) THEN PAD ELSE b2 % 64

Base64Encode(b) == [i \in 1..Base64OutLen(Len(b)) |-> Base64Char(b, i)]

PadCount(t) ==
    IF Len(t) = 0 \/ t[Len(t)] # PAD THEN 0
    ELSE IF Len(t) >= 2 /\ t[Len(t) - 1] = PAD THEN 2 ELSE 1

\* strict decoding: length a multiple of four, padding only at the end and
\* canonical, no trailing bits
Base64Valid(t) ==
    LET p == PadCount(t)
        n == Len(t)
    IN  /\ n % 4 = 0
        /\ \A i \in 1..(n - p) : t[i] \in 0..63
        /\ p = 1 => t[n - 1] % 4 = 0
        /\ p = 2 => t[n - 2] % 16 = 0

Base64Byte(t, i) ==
    LET g == (i - 1) \div 3
        r == (i - 1) % 3
        c0 == t[4 * g + 1]
        c1 == t[4 * g + 2]
        c2 == t[4 * g + 3]
        c3 == t[4 * g + 4]
    IN  CASE r = 0 -> c0 * 4 + (c1 \div 16)
          [] r = 1 -> (c1 % 16) * 16 + (c2 \div 4)
          [] OTHER -> (c2 % 4) * 64 + c3

Base64Decode(t) ==
    IF ~Base64Valid(t) THEN Err("base64 decode error")
    ELSE Ok([i \in 1..(3 * (Len(t) \div 4) - PadCount(t)) |-> Base64Byte(t, i)])

---------------------------------------------------------------------------
(* String::as_bytes and String::from_utf8, for code points below U+0800 *)

RECURSIVE Utf8Encode(_)
Utf8Encode(s) ==
    IF s = << >> THEN << >>
    ELSE LET c == Head(s)
         IN  (IF c < 128 THEN <<c>>
              ELSE <<192 + (c \div 64), 128 + (c % 64)>>) \o Utf8Encode(Tail(s))

RECURSIVE Utf8Valid(_)
Utf8Valid(b) ==
    IF b = << >> THEN TRUE
    ELSE IF b[1] < 128 THEN Utf8Valid(Tail(b))
    ELSE IF b[1] \in 194..223 /\ Len(b) >= 2 /\ b[2] \in 128..191
         THEN Utf8Valid(Tail(Tail(b)))
    ELSE FALSE

RECURSIVE Utf8Chars(_)
Utf8Chars(b) ==
    IF b = << >> THEN << >>
    ELSE IF b[1] < 128 THEN <<b[1]>> \o Utf8Chars(Tail(b))
    ELSE <<(b[1] - 192) * 64 + (b[2] - 128)>> \o Utf8Chars(Tail(Tail(b)))

FromUtf8(b) ==
    IF Utf8Valid(b) THEN Ok(Utf8Chars(b))
    ELSE Err("Invalid UTF-8 in decrypted project name")

---------------------------------------------------------------------------
(* sodiumoxide::crypto::secretbox, as an ideal authenticated cipher on     *)
(* bytes: seal returns a MACBYTES tag followed by the encrypted bytes, and *)
(* open returns the plaintext only when the tag matches the key, the nonce *)
(* and the encrypted bytes.                                                *)

RECURSIVE SumBytes(_, _)
SumBytes(b, n) == IF n = 0 THEN 0 ELSE b[n] + SumBytes(b, n - 1)

KeyStream(key, nonce, i) ==
    key[((i - 1) % PROJECT_KEY_LENGTH) + 1] + nonce[((i - 1) % NONCEBYTES) + 1]

Mac(key, nonce, body) ==
    LET digest == 3 * SumBytes(nonce, Len(nonce)) + 7 * SumBytes(body, Len(body))
                    + Len(body)
    IN  [j \in 1..MACBYTES |-> (key[j] + digest + j) % 256]

secretbox_seal(m, nonce, key) ==
    LET body == [i \in 1..Len(m) |-> (m[i] + KeyStream(key, nonce, i)) % 256]
    IN  Mac(key, nonce, body) \o body

secretbox_open(c, nonce, key) ==
    IF Len(c) < MACBYTES THEN Err("open failed")
    ELSE LET tag == SubSeq(c, 1, MACBYTES)
             body == SubSeq(c, MACBYTES + 1, Len(c))
         IN  IF tag # Mac(key, nonce, body) THEN Err("open failed")
             ELSE Ok([i \in 1..Len(body) |->
                        (body[i] + 512 - KeyStream(key, nonce, i)) % 256])

\* faulty variant of EncryptProject: the nonce is not put in front
EncryptProjectNoNonce(project_name, nonce, key) ==
    secretbox_seal(Utf8Encode(project_name), nonce, key)

\* lines 191-196 of Config::cache_project: nonce followed by the sealed name
EncryptProject(project_name, nonce, key) ==
    nonce \o secretbox_seal(Utf8Encode(project_name), nonce, key)

\* faulty variant of DecryptProject: a failed open yields the empty name
DecryptProjectOrEmpty(combined, key) ==
    IF Len(combined) < NONCEBYTES THEN Err("Invalid encrypted project data")
    ELSE LET nonce == SubSeq(combined, 1, NONCEBYTES)
             encrypted == SubSeq(combined, NONCEBYTES + 1, Len(combined))
             decrypted == secretbox_open(encrypted, nonce, key)
         IN  IF decrypted.tag = "Err" THEN FromUtf8(<< >>)
             ELSE FromUtf8(decrypted.val)

\* lines 236-248 of Organization::get_project: split the blob, open it, decode
DecryptProject(combined, key) ==
    IF Len(combined) < NONCEBYTES THEN Err("Invalid encrypted project data")
    ELSE LET nonce == SubSeq(combined, 1, NONCEBYTES)
             encrypted == SubSeq(combined, NONCEBYTES + 1, Len(combined))
             decrypted == secretbox_open(encrypted, nonce, key)
         IN  IF decrypted.tag = "Err" THEN Err("Failed to decrypt project name")
             ELSE FromUtf8(decrypted.val)

\* one bit of a byte changes: bit k of byte b
FlipBit(b, k) ==
    LET w == 2 ^ k IN IF (b \div w) % 2 = 0 THEN b + w ELSE b - w

\* bit k of the i-th byte of the ciphertext region of a blob is flipped
Tampered(blob, i, k) == [blob EXCEPT ![NONCEBYTES + i] = FlipBit(@, k)]

\* the bits flipped: the lowest bit of the first byte of the tag, and the
\* highest bit of the first encrypted byte
TamperPlaces == {<<1, 0>>, <<MACBYTES + 1, 7>>}

---------------------------------------------------------------------------
(* The conversions above, tabulated once over the byte strings and texts   *)
(* that the inputs of the model produce; a value outside a table is        *)
(* converted directly.                                                     *)

SealedBlobs ==
    {EncryptProject(m, n, k) : m \in ProjectNames, n \in RandomNonces, k \in RandomKeys}

TamperedBlobs ==
    UNION {{Tampered(b, pl[1], pl[2]) : b \in {x \in SealedBlobs : Len(x) >= NONCEBYTES + pl[1]}}
           : pl \in TamperPlaces}

KnownBlobs == SealedBlobs \cup TamperedBlobs \cup {<< >>}

EncryptTable ==
    [m \in ProjectNames, n \in RandomNonces, k \in RandomKeys |-> EncryptProject(m, n, k)]

DecryptTable == [b \in KnownBlobs, k \in RandomKeys |-> DecryptProject(b, k)]

EncodeTable == [b \in KnownBlobs \cup RandomKeys |-> Base64Encode(b)]

DecodeTable == [t \in {EncodeTable[b] : b \in DOMAIN EncodeTable} |-> Base64Decode(t)]

Encrypt(m, n, k) ==
    IF <<m, n, k>> \in DOMAIN EncryptTable THEN EncryptTable[m, n, k]
    ELSE EncryptProject(m, n, k)

Decrypt(b, k) ==
    IF <<b, k>> \in DOMAIN DecryptTable THEN DecryptTable[b, k] ELSE DecryptProject(b, k)

Encode(b) == IF b \in DOMAIN EncodeTable THEN EncodeTable[b] ELSE Base64Encode(b)

Decode(t) == IF t \in DOMAIN DecodeTable THEN DecodeTable[t] ELSE Base64Decode(t)

---------------------------------------------------------------------------
(* The secret store (keyring crate) *)

DeviceEntry == [service |-> KEYRING_SERVICE, user |-> KEYRING_USERNAME]
TokenEntry(name) == [service |-> APP_NAME \o "-" \o name, user |-> AUTH_TOKEN_USERNAME]
Entries == {DeviceEntry} \cup {TokenEntry(n) : n \in OrgNames}

NoEntry == [present |-> FALSE, password |-> << >>]
Stored(pw) == [present |-> TRUE, password |-> pw]

\* How the store answers during one call: "ok" (every request is served),
\* "unavailable" (get_password and set_password both fail), "read_failed"
\* (get_password fails with an error other than NoEntry, set_password is
\* served).
StoreModes == {"ok", "unavailable", "read_failed"}

\* Entry::get_password
get_password(kr, entry, mode) ==
    IF mode # "ok" THEN Err("keyring: platform failure")
    ELSE IF ~kr[entry].present THEN Err("keyring: no entry")
    ELSE Ok(kr[entry].password)

\* faulty variant of set_password: a password that is stored is kept
set_password_if_absent(kr, entry, pw, mode) ==
    IF mode = "unavailable"
    THEN [ret |-> Err("keyring: platform failure"), keyring |-> kr]
    ELSE IF kr[entry].present THEN [ret |-> Ok(Unit), keyring |-> kr]
    ELSE [ret |-> Ok(Unit), keyring |-> [kr EXCEPT ![entry] = Stored(pw)]]

\* Entry::set_password: the result and the store afterwards
set_password(kr, entry, pw, mode) ==
    IF mode = "unavailable"
    THEN [ret |-> Err("keyring: platform failure"), keyring |-> kr]
    ELSE [ret |-> Ok(Unit), keyring |-> [kr EXCEPT ![entry] = Stored(pw)]]

---------------------------------------------------------------------------
(* Data model: Organization, EncryptedProject, Config *)

\* Option<Entry>: the handle of an organization's token entry
NoHandle == [some |-> FALSE, entry |-> [service |-> "", user |-> ""]]
Handle(e) == [some |-> TRUE, entry |-> e]

EmptyMap == << >>

Insert(map, k, v) == [x \in DOMAIN map \cup {k} |-> IF x = k THEN v ELSE map[x]]

EncryptedProject(name, slug) == [name |-> name, slug |-> slug]

\* Config::default()
ConfigDefault == [organizations |-> EmptyMap]

\* Organization::new
OrganizationNew(name, slug) ==
    [name |-> name, slug |-> slug, keyring |-> Handle(TokenEntry(name)),
     projects |-> EmptyMap]

---------------------------------------------------------------------------
(* The file on disk.  Its text is either the pretty-printed JSON document   *)
(* of a Config ("written"), or what an interrupted write leaves: no bytes   *)
(* ("empty") or a proper prefix of a document ("partial"), neither of which *)
(* is valid JSON.                                                          *)

NoFile == [state |-> "absent", doc |-> EmptyMap]
EmptyFile == [state |-> "empty", doc |-> EmptyMap]
PartialFile == [state |-> "partial", doc |-> EmptyMap]
Written(doc) == [state |-> "written", doc |-> doc]

\* How the file system answers during one call of save or load.
SaveModes == {"ok", "mkdir_failed", "open_failed", "write_failed"}
LoadModes == {"ok", "read_failed"}

\* encrypted_data::serialize and ::deserialize of EncryptedProject.name
SerializeProject(p) == [name |-> Encode(p.name), slug |-> p.slug]

\* faulty variant of DeserializeProject: the text is taken as the bytes
DeserializeProjectRaw(j) == Ok(EncryptedProject(j.name, j.slug))

DeserializeProject(j) ==
    LET bytes == Decode(j.name)
    IN  IF bytes.tag = "Err" THEN bytes
        ELSE Ok(EncryptedProject(bytes.val, j.slug))

\* faulty variant of SerializeOrganization: the keyring field is written too
SerializeOrganizationAll(o) ==
    [name |-> o.name, slug |-> o.slug, keyring |-> o.keyring,
     projects |-> [s \in DOMAIN o.projects |-> SerializeProject(o.projects[s])]]

\* #[derive(Serialize)] of Organization: the keyring field is skipped
SerializeOrganization(o) ==
    [name |-> o.name, slug |-> o.slug,
     projects |-> [s \in DOMAIN o.projects |-> SerializeProject(o.projects[s])]]

\* #[derive(Deserialize)] of Organization: the skipped field takes its
\* default, None
DeserializeOrganization(j) ==
    IF \E s \in DOMAIN j.projects : DeserializeProject(j.projects[s]).tag = "Err"
    THEN Err("base64 decode error")
    ELSE Ok([name |-> j.name, slug |-> j.slug, keyring |-> NoHandle,
             projects |-> [s \in DOMAIN j.projects |->
                              DeserializeProject(j.projects[s]).val]])

\* serde_json::to_string_pretty(self)
SerializeConfig(c) ==
    [organizations |->
        [n \in DOMAIN c.organizations |-> SerializeOrganization(c.organizations[n])]]

\* serde_json::from_str(&content)
DeserializeConfig(f) ==
    IF f.state # "written" THEN Err("EOF while parsing")
    ELSE IF \E n \in DOMAIN f.doc.organizations :
                DeserializeOrganization(f.doc.organizations[n]).tag = "Err"
    THEN Err("base64 decode error")
    ELSE Ok([organizations |->
                [n \in DOMAIN f.doc.organizations |->
                    DeserializeOrganization(f.doc.organizations[n]).val]])

\* faulty variant of Load: no check that the file exists
LoadUnchecked(f, io) ==
    IF f.state = "absent" \/ io = "read_failed"
    THEN Err("Failed to read config file: " \o ConfigPath)
    ELSE LET parsed == DeserializeConfig(f)
         IN  IF parsed.tag = "Err"
             THEN Err("Failed to parse config file: " \o ConfigPath)
             ELSE parsed

\* faulty variant of Load: a file that does not parse yields the default
LoadOrDefault(f, io) ==
    IF f.state = "absent" THEN Ok(ConfigDefault)
    ELSE IF io = "read_failed"
    THEN Err("Failed to read config file: " \o ConfigPath)
    ELSE LET parsed == DeserializeConfig(f)
         IN  IF parsed.tag = "Err" THEN Ok(ConfigDefault) ELSE parsed

\* Config::load
Load(f, io) ==
    IF f.state = "absent" THEN Ok(ConfigDefault)
    ELSE IF io = "read_failed"
    THEN Err("Failed to read config file: " \o ConfigPath)
    ELSE LET parsed == DeserializeConfig(f)
         IN  IF parsed.tag = "Err"
             THEN Err("Failed to parse config file: " \o ConfigPath)
             ELSE parsed

\* Config::save: the result and the file afterwards
Save(c, f, io) ==
    CASE io = "mkdir_failed" ->
            [ret |-> Err("Failed to create config directory: " \o ConfigDir),
             file |-> f]
      [] io = "open_failed" ->
            [ret |-> Err("Failed to write config file: " \o ConfigPath), file |-> f]
      [] io = "write_failed" ->
            [ret |-> Err("Failed to write config file: " \o ConfigPath),
             file |-> PartialFile]
      [] OTHER ->
            [ret |-> Ok(Unit), file |-> Written(SerializeConfig(c))]

---------------------------------------------------------------------------
(* Operations of Config and Organization, as functions of the state they   *)
(* read and of the environment's answers; each returns its result and the  *)
(* state it leaves.                                                        *)

\* faulty variant of add_organization: the entry is filed under its slug
add_organization_by_slug(c, name, slug) ==
    [organizations |->
        Insert(c.organizations, slug,
               [name |-> name, slug |-> slug, keyring |-> NoHandle,
                projects |-> EmptyMap])]

\* faulty variant of add_organization: an existing entry keeps its projects
add_organization_keep(c, name, slug) ==
    [organizations |->
        Insert(c.organizations, name,
               [name |-> name, slug |-> slug, keyring |-> NoHandle,
                projects |-> IF name \in DOMAIN c.organizations
                             THEN c.organizations[name].projects ELSE EmptyMap])]

\* Config::add_organization
add_organization(c, name, slug) ==
    [organizations |->
        Insert(c.organizations, name,
               [name |-> name, slug |-> slug, keyring |-> NoHandle,
                projects |-> EmptyMap])]

\* Config::get_organization and get_organization_mut
get_organization(c, name) ==
    IF name \in DOMAIN c.organizations THEN Ok(c.organizations[name]) ELSE None

\* faulty variant of get_project_key: a key is generated and stored on every
\* call, whether or not one is stored
get_project_key_fresh(kr, mode, rnd) ==
    LET set == set_password(kr, DeviceEntry, Encode(rnd), mode)
    IN  IF set.ret.tag = "Err" THEN set
        ELSE [ret |-> Ok(rnd), keyring |-> set.keyring]

\* Config::get_project_key: the result and the secret store afterwards.
\* rnd is the key the random generator would produce.
get_project_key(kr, mode, rnd) ==
    LET got == get_password(kr, DeviceEntry, mode)
    IN  IF got.tag = "Ok"
        THEN LET key_bytes == Decode(got.val)
             IN  IF key_bytes.tag = "Err"
                 THEN [ret |-> Err("Failed to decode project key"), keyring |-> kr]
                 ELSE IF Len(key_bytes.val) # PROJECT_KEY_LENGTH
                 THEN [ret |-> Panic("copy_from_slice: length mismatch"),
                       keyring |-> kr]
                 ELSE [ret |-> Ok(key_bytes.val), keyring |-> kr]
        ELSE LET set == set_password(kr, DeviceEntry, Encode(rnd), mode)
             IN  IF set.ret.tag = "Err" THEN set
                 ELSE [ret |-> Ok(rnd), keyring |-> set.keyring]

\* faulty variant of get_auth_token: a failed read of the entry is returned
\* as an error
get_auth_token_strict(org, kr, mode) ==
    IF ~org.keyring.some THEN Ok(None)
    ELSE LET got == get_password(kr, org.keyring.entry, mode)
         IN  IF got.tag = "Ok" THEN Ok(Some(got.val)) ELSE got

\* Organization::get_auth_token
get_auth_token(org, kr, mode) ==
    IF ~org.keyring.some THEN Ok(None)
    ELSE LET got == get_password(kr, org.keyring.entry, mode)
         IN  IF got.tag = "Ok" THEN Ok(Some(got.val)) ELSE Ok(None)

\* Organization::set_auth_token: the result and the secret store afterwards
set_auth_token(org, token, kr, mode) ==
    IF org.keyring.some
    THEN set_password(kr, org.keyring.entry, token, mode)
    ELSE [ret |-> Ok(Unit), keyring |-> kr]

\* Organization::has_project
has_project(org, slug) == slug \in DOMAIN org.projects

\* Organization::add_project
add_project(org, project_slug) ==
    [org EXCEPT !.projects =
        Insert(org.projects, project_slug, EncryptedProject(<< >>, project_slug))]

\* Organization::get_project: the result (None, or Some of a Result) and the
\* secret store afterwards
get_project(org, slug, kr, mode, rnd) ==
    IF slug \notin DOMAIN org.projects THEN [ret |-> None, keyring |-> kr]
    ELSE LET key == get_project_key(kr, mode, rnd)
         IN  IF key.ret.tag = "Panic" THEN key
             ELSE IF key.ret.tag = "Err"
             THEN [ret |-> Some(key.ret), keyring |-> key.keyring]
             ELSE [ret |-> Some(Decrypt(org.projects[slug].name, key.ret.val)),
                   keyring |-> key.keyring]

\* faulty variant of cache_project: the Config is saved before the insert
cache_project_early_save(c, org_name, project_slug, project_name, kr, f, mode, rnd, nonce, io) ==
    IF org_name \notin DOMAIN c.organizations
    THEN [ret |-> Ok(Unit), config |-> c, keyring |-> kr, file |-> f]
    ELSE LET key == get_project_key(kr, mode, rnd)
         IN  IF key.ret.tag # "Ok"
             THEN [ret |-> key.ret, config |-> c, keyring |-> key.keyring, file |-> f]
             ELSE LET combined == Encrypt(project_name, nonce, key.ret.val)
                      org == c.organizations[org_name]
                      c2 == [organizations |->
                                [c.organizations EXCEPT ![org_name].projects =
                                    Insert(org.projects, project_slug,
                                           EncryptedProject(combined, project_slug))]]
                      saved == Save(c, f, io)
                  IN  [ret |-> saved.ret, config |-> c2, keyring |-> key.keyring,
                       file |-> saved.file]

\* faulty variant of cache_project: the device key is obtained before the
\* organization is looked up
cache_project_key_first(c, org_name, project_slug, project_name, kr, f, mode, rnd, nonce, io) ==
    LET key == get_project_key(kr, mode, rnd)
    IN  IF key.ret.tag # "Ok"
        THEN [ret |-> key.ret, config |-> c, keyring |-> key.keyring, file |-> f]
        ELSE IF org_name \notin DOMAIN c.organizations
        THEN [ret |-> Ok(Unit), config |-> c, keyring |-> key.keyring, file |-> f]
        ELSE LET combined == Encrypt(project_name, nonce, key.ret.val)
                 org == c.organizations[org_name]
                 c2 == [organizations |->
                           [c.organizations EXCEPT ![org_name].projects =
                               Insert(org.projects, project_slug,
                                      EncryptedProject(combined, project_slug))]]
                 saved == Save(c2, f, io)
             IN  [ret |-> saved.ret, config |-> c2, keyring |-> key.keyring,
                  file |-> saved.file]

\* Config::cache_project: the result, and the Config, the secret store and
\* the file afterwards
cache_project(c, org_name, project_slug, project_name, kr, f, mode, rnd, nonce, io) ==
    IF org_name \notin DOMAIN c.organizations
    THEN [ret |-> Ok(Unit), config |-> c, keyring |-> kr, file |-> f]
    ELSE LET key == get_project_key(kr, mode, rnd)
         IN  IF key.ret.tag # "Ok"
             THEN [ret |-> key.ret, config |-> c, keyring |-> key.keyring, file |-> f]
             ELSE LET combined == Encrypt(project_name, nonce, key.ret.val)
                      org == c.organizations[org_name]
                      c2 == [organizations |->
                                [c.organizations EXCEPT ![org_name].projects =
                                    Insert(org.projects, project_slug,
                                           EncryptedProject(combined, project_slug))]]
                      saved == Save(c2, f, io)
                  IN  [ret |-> saved.ret, config |-> c2, keyring |-> key.keyring,
                       file |-> saved.file]

---------------------------------------------------------------------------
(* State machine *)

Call(op, org, slug, name, token, had, ret) ==
    [op |-> op, org |-> org, slug |-> slug, name |-> name, token |-> token,
     had |-> had, ret |-> ret]

Init ==
    /\ config = ConfigDefault
    /\ file = NoFile
    /\ keyring = [e \in Entries |-> NoEntry]
    /\ last = Call("init", "", "", << >>, "", FALSE, Ok(Unit))
    /\ ops = 0

Organizations == DOMAIN config.organizations

\* a panic ends the process: the next one starts without a Config
AfterCall(ret, c) == IF ret.tag = "Panic" THEN ConfigDefault ELSE c

\* the random key matters only when get_project_key generates one
KeysDrawn(mode) ==
    IF get_password(keyring, DeviceEntry, mode).tag # "Ok" /\ mode # "unavailable"
    THEN RandomKeys
    ELSE {CHOOSE k \in RandomKeys : TRUE}

\* the nonce and the file system matter only when a key was obtained
KeyObtained(mode, rnd) == get_project_key(keyring, mode, rnd).ret.tag = "Ok"

AddOrganization(name, slug) ==
    /\ ops < MaxOps
    /\ config' = add_organization(config, name, slug)
    /\ last' = Call("add_organization", name, slug, << >>, "",
                    name \in Organizations, Ok(Unit))
    /\ ops' = ops + 1
    /\ UNCHANGED <<file, keyring>>

SetAuthToken(name, token, mode) ==
    /\ ops < MaxOps
    /\ name \in Organizations
    /\ LET r == set_auth_token(config.organizations[name], token, keyring, mode)
       IN  /\ keyring' = r.keyring
           /\ last' = Call("set_auth_token", name, "", << >>, token, TRUE, r.ret)
    /\ ops' = ops + 1
    /\ UNCHANGED <<config, file>>

GetAuthToken(name, mode) ==
    /\ name \in Organizations
    /\ last' = Call("get_auth_token", name, "", << >>, "", TRUE,
                    get_auth_token(config.organizations[name], keyring, mode))
    /\ UNCHANGED <<config, file, keyring, ops>>

CacheProject(org_name, project_slug, project_name) ==
    /\ ops < MaxOps
    /\ \E mode \in StoreModes : \E rnd \in KeysDrawn(mode) :
       \E nonce \in (IF KeyObtained(mode, rnd) /\ org_name \in Organizations
                     THEN RandomNonces ELSE {CHOOSE n \in RandomNonces : TRUE}) :
       \E io \in (IF KeyObtained(mode, rnd) /\ org_name \in Organizations
                  THEN SaveModes ELSE {"ok"}) :
          LET r == cache_project(config, org_name, project_slug, project_name,
                                 keyring, file, mode, rnd, nonce, io)
          IN  /\ config' = AfterCall(r.ret, r.config)
              /\ keyring' = r.keyring
              /\ file' = r.file
              /\ last' = Call("cache_project", org_name, project_slug, project_name,
                              "", org_name \in Organizations, r.ret)
    /\ ops' = ops + 1

GetProject(name, slug) ==
    /\ name \in Organizations
    /\ \E mode \in StoreModes : \E rnd \in KeysDrawn(mode) :
          LET r == get_project(config.organizations[name], slug, keyring, mode, rnd)
          IN  /\ config' = AfterCall(r.ret, config)
              /\ keyring' = r.keyring
              /\ last' = Call("get_project", name, slug, << >>, "",
                              has_project(config.organizations[name], slug), r.ret)
    /\ UNCHANGED <<file, ops>>

AddProject(name, project_slug) ==
    /\ ops < MaxOps
    /\ name \in Organizations
    /\ config' = [organizations |->
                    [config.organizations EXCEPT
                        ![name] = add_project(config.organizations[name], project_slug)]]
    /\ last' = Call("add_project", name, project_slug, << >>, "",
                    has_project(config.organizations[name], project_slug), Ok(Unit))
    /\ ops' = ops + 1
    /\ UNCHANGED <<file, keyring>>

SaveConfig(io) ==
    /\ ops < MaxOps
    /\ LET r == Save(config, file, io)
       IN  /\ file' = r.file
           /\ last' = Call("save", "", "", << >>, "", file.state # "absent", r.ret)
    /\ ops' = ops + 1
    /\ UNCHANGED <<config, keyring>>

\* a process calls Config::load() and, on success, works with what it returns
LoadConfig(io) ==
    /\ LET r == Load(file, io)
       IN  /\ config' = IF r.tag = "Ok" THEN r.val ELSE config
           /\ last' = Call("load", "", "", << >>, "", file.state # "absent",
                           IF r.tag = "Ok" THEN Ok(Unit) ELSE r)
    /\ UNCHANGED <<file, keyring, ops>>

\* the process is killed inside fs::write of save(), after the file was
\* truncated and before all of its content was written; its memory is gone
CrashInSave ==
    /\ ops < MaxOps
    /\ file' \in {EmptyFile, PartialFile}
    /\ config' = ConfigDefault
    /\ last' = Call("crash", "", "", << >>, "", file.state # "absent", Panic("killed"))
    /\ ops' = ops + 1
    /\ UNCHANGED keyring

\* something outside the program flips a bit in the ciphertext region of a
\* cached project's blob in the file
TamperFile(name, slug, i, k) ==
    /\ ops < MaxOps
    /\ file.state = "written"
    /\ name \in DOMAIN file.doc.organizations
    /\ slug \in DOMAIN file.doc.organizations[name].projects
    /\ LET text == file.doc.organizations[name].projects[slug].name
           blob == Decode(text)
       IN  /\ blob.tag = "Ok"
           /\ NONCEBYTES + i <= Len(blob.val)
           /\ file' = [file EXCEPT !.doc.organizations[name].projects[slug].name =
                          Encode(Tampered(blob.val, i, k))]
    /\ last' = Call("tamper", name, slug, << >>, "", TRUE, Ok(Unit))
    /\ ops' = ops + 1
    /\ UNCHANGED <<config, keyring>>

Next ==
    \/ \E in \in OrgInputs : AddOrganization(in[1], in[2])
    \/ \E n \in OrgNames, t \in Tokens, m \in StoreModes : SetAuthToken(n, t, m)
    \/ \E n \in OrgNames, m \in StoreModes : GetAuthToken(n, m)
    \/ \E n \in OrgNames, s \in ProjectSlugs, p \in ProjectNames : CacheProject(n, s, p)
    \/ \E n \in OrgNames, s \in ProjectSlugs : GetProject(n, s)
    \/ \E n \in OrgNames, s \in ProjectSlugs : AddProject(n, s)
    \/ \E io \in SaveModes : SaveConfig(io)
    \/ \E io \in LoadModes : LoadConfig(io)
    \/ CrashInSave
    \/ \E n \in OrgNames, s \in ProjectSlugs, pl \in TamperPlaces :
          TamperFile(n, s, pl[1], pl[2])

Spec == Init /\ [][Next]_vars

---------------------------------------------------------------------------
(* Properties *)

AnyKey == CHOOSE k \in RandomKeys : TRUE

\* what get_project returns on the current state when the secret store answers
ProjectRead(org, slug) == get_project(org, slug, keyring, "ok", AnyKey).ret

\* what get_auth_token returns on the current state when the secret store answers
TokenRead(org) == get_auth_token(org, keyring, "ok")

\* the device key now in the secret store
KeyStored == keyring[DeviceEntry].present
KeyNow == Decode(keyring[DeviceEntry].password).val

Blob(name, slug) == config.organizations[name].projects[slug].name

\* the blob is nonce||ciphertext of a project name under key k
SealedUnder(blob, k) ==
    \E p \in ProjectNames, n \in RandomNonces : blob = Encrypt(p, n, k)

\* the blob is a sealed blob with one bit of its ciphertext region flipped
Altered(blob) ==
    \E b \in SealedBlobs, pl \in TamperPlaces :
        /\ NONCEBYTES + pl[1] <= Len(b)
        /\ blob = Tampered(b, pl[1], pl[2])

\* the last call was cache_project on an organization of the Config, and it
\* returned Ok
CachedOk ==
    /\ last.op = "cache_project"
    /\ last.had
    /\ last.ret = Ok(Unit)

\* C1: for an organization created with add_organization, after
\* set_auth_token(t) returned Ok, get_auth_token returns Some(t).
C1_TokenSetThenGet ==
    (last.op = "set_auth_token" /\ last.ret = Ok(Unit))
        => TokenRead(config.organizations[last.org]) = Ok(Some(last.token))

\* C2: every organization of a Config returned by load() holds the handle of
\* the entry (service "sex-cli-<name>", account "auth-token"), and
\* get_auth_token returns what the secret store holds under it.
C2_HandleAfterLoad ==
    (last.op = "load" /\ last.ret.tag = "Ok")
        => \A n \in Organizations :
              /\ config.organizations[n].keyring = Handle(TokenEntry(n))
              /\ TokenRead(config.organizations[n]) =
                    (IF keyring[TokenEntry(n)].present
                     THEN Ok(Some(keyring[TokenEntry(n)].password)) ELSE Ok(None))

\* C3: the document in the file holds, for each organization, only name, slug
\* and projects, for each project only name and slug, and no string of it is
\* a token.
C3_NoTokenInFile ==
    file.state = "written" =>
        \A n \in DOMAIN file.doc.organizations :
            LET o == file.doc.organizations[n]
            IN  /\ DOMAIN o = {"name", "slug", "projects"}
                /\ {n, o.name, o.slug} \cap Tokens = {}
                /\ \A s \in DOMAIN o.projects :
                      /\ DOMAIN o.projects[s] = {"name", "slug"}
                      /\ {s, o.projects[s].slug} \cap Tokens = {}

C3_Witness ==
    /\ last.op = "save"
    /\ last.ret = Ok(Unit)
    /\ \E n \in DOMAIN file.doc.organizations :
          file.doc.organizations[n].projects # EmptyMap

\* C4: after cache_project(org, slug, s) returned Ok for an organization of
\* the Config, get_project(slug) on it returns Some(Ok(s)); and as long as an
\* entry holds a blob sealed from s under the key that the secret store
\* holds, get_project returns Some(Ok(s)).
C4_CacheThenGet ==
    /\ CachedOk => ProjectRead(config.organizations[last.org], last.slug)
                      = Some(Ok(last.name))
    /\ \A n \in Organizations : \A s \in DOMAIN config.organizations[n].projects :
       \A p \in ProjectNames, nn \in RandomNonces :
          (KeyStored /\ Blob(n, s) = Encrypt(p, nn, KeyNow))
              => ProjectRead(config.organizations[n], s) = Some(Ok(p))

C4_Witness ==
    /\ last.op = "get_project"
    /\ last.ret = Some(Ok(<<87, 233>>))

\* C5: when cache_project returned Ok for an organization of the Config, the
\* file holds the entry: load() of the file succeeds, finds the slug cached
\* and get_project on the loaded organization returns the same name.
C5_CacheIsOnDisk ==
    CachedOk =>
        LET loaded == Load(file, "ok")
        IN  /\ loaded.tag = "Ok"
            /\ last.org \in DOMAIN loaded.val.organizations
            /\ has_project(loaded.val.organizations[last.org], last.slug)
            /\ ProjectRead(loaded.val.organizations[last.org], last.slug)
                  = Some(Ok(last.name))

C5_Witness ==
    /\ last.op = "load"
    /\ last.ret.tag = "Ok"
    /\ \E n \in Organizations :
          /\ has_project(config.organizations[n], "web")
          /\ ProjectRead(config.organizations[n], "web") = Some(Ok(<<87, 233>>))

\* the two Configs have the same organization names and slugs, the same
\* project slugs and the same blobs
SameConfig(a, b) ==
    /\ DOMAIN a.organizations = DOMAIN b.organizations
    /\ \A n \in DOMAIN a.organizations :
          LET x == a.organizations[n]
              y == b.organizations[n]
          IN  /\ x.name = y.name
              /\ x.slug = y.slug
              /\ DOMAIN x.projects = DOMAIN y.projects
              /\ \A s \in DOMAIN x.projects :
                    /\ x.projects[s].slug = y.projects[s].slug
                    /\ x.projects[s].name = y.projects[s].name

\* C6: for the Config c of any reachable state, save() followed by load()
\* returns a Config with the organizations, slugs, project slugs and blobs of c.
C6_SaveLoadRoundTrip ==
    LET saved == Save(config, file, "ok")
        loaded == Load(saved.file, "ok")
    IN  /\ saved.ret = Ok(Unit)
        /\ loaded.tag = "Ok"
        /\ SameConfig(loaded.val, config)

C6_Witness ==
    /\ last.op = "load"
    /\ last.ret.tag = "Ok"
    /\ file = Save(config, file, "ok").file
    /\ \E n \in Organizations : \E s \in DOMAIN config.organizations[n].projects :
          Len(Blob(n, s)) > NONCEBYTES + MACBYTES

\* C7: load() when the file does not exist returns Ok, and the Config it
\* returns has no organization.
C7_LoadMissingFile ==
    (last.op = "load" /\ file.state = "absent")
        => /\ last.ret.tag = "Ok"
           /\ config = ConfigDefault
           /\ Cardinality(DOMAIN config.organizations) = 0

C7_Witness ==
    /\ last.op = "load"
    /\ file.state = "absent"
    /\ last.ret.tag = "Ok"
    /\ ops > 0

ParseError == Err("Failed to parse config file: " \o ConfigPath)
ReadError == Err("Failed to read config file: " \o ConfigPath)

\* C8: load() of a file that exists and is empty or cut short never returns a
\* Config: it fails, with the parse error that carries the path whenever the
\* file could be read.
C8_LoadCorruptFile ==
    file.state \in {"empty", "partial"} =>
        /\ Load(file, "ok") = ParseError
        /\ last.op = "load" => last.ret \in {ParseError, ReadError}

C8_Witness ==
    /\ last.op = "load"
    /\ file.state = "empty"
    /\ last.ret = ParseError

\* C9: add_organization(n, y) leaves one organization under n, with slug y,
\* no token handle and no cached project, and leaves the other organizations
\* as they were.
C9_AddOrganizationUpsert ==
    [][last'.op = "add_organization" =>
          /\ DOMAIN config'.organizations = DOMAIN config.organizations \cup {last'.org}
          /\ config'.organizations[last'.org] =
                [name |-> last'.org, slug |-> last'.slug, keyring |-> NoHandle,
                 projects |-> EmptyMap]
          /\ \A m \in DOMAIN config.organizations \ {last'.org} :
                config'.organizations[m] = config.organizations[m]]_vars

C9_Witness ==
    /\ last.op = "add_organization"
    /\ last.had
    /\ file.state = "written"
    /\ last.org \in DOMAIN file.doc.organizations
    /\ file.doc.organizations[last.org].slug # last.slug
    /\ file.doc.organizations[last.org].projects # EmptyMap
    /\ config.organizations[last.org].slug = last.slug
    /\ config.organizations[last.org].projects = EmptyMap

\* C10: get_project on a blob with a flipped bit in its ciphertext region, or
\* on a blob sealed under a key other than the one now in the secret store,
\* returns Some(Err): it returns no name.
C10_FailsClosed ==
    (last.op = "get_project" /\ last.had /\ last.ret.tag # "Panic") =>
        ((\/ Altered(Blob(last.org, last.slug))
          \/ /\ KeyStored
             /\ \E k \in RandomKeys \ {KeyNow} : SealedUnder(Blob(last.org, last.slug), k))
            => /\ last.ret.tag = "Some"
               /\ last.ret.val.tag = "Err")

C10_Witness ==
    /\ last.op = "get_project"
    /\ last.had
    /\ Altered(Blob(last.org, last.slug))
    /\ last.ret = Some(Err("Failed to decrypt project name"))

---------------------------------------------------------------------------
(* Short blobs *)

\* C11: get_project on a cached entry whose blob is shorter than the nonce
\* returns the error "Invalid encrypted project data", whatever the secret
\* store answers.
C11_ShortBlobMalformed ==
    (/\ last.op = "get_project"
     /\ last.had
     /\ last.ret.tag # "Panic"
     /\ Len(Blob(last.org, last.slug)) < NONCEBYTES)
        => last.ret = Some(Err("Invalid encrypted project data"))

\* C12: every project entry of the Config holds a blob of at least
\* NONCEBYTES bytes.
C12_BlobsHaveNonce ==
    \A n \in Organizations :
        \A s \in DOMAIN config.organizations[n].projects :
            Len(Blob(n, s)) >= NONCEBYTES

---------------------------------------------------------------------------
(* The device key.  KeySpec follows Config::get_project_key through the    *)
(* calls that use it (cache_project, get_project), recording how the       *)
(* secret store answered each call, with an entry that something other     *)
(* than this program may have written (an older build, another tool, the   *)
(* user): last.mode is the store's mode during the call.                   *)

\* texts under the device-key entry that get_project_key did not write:
\* the base64 text of a 16-byte key, and a text that is not base64
ForeignKeyTexts == {Base64Encode(Fill(16, 17)), <<10, 11, 12>>}

WithMode(call, mode) == [mode |-> mode] @@ call

\* the calls that obtain the device key
KeyCalls == {"cache_project", "get_project"}

\* in KeySpec the nonce is one value and the file system serves every save
KeyNonce == CHOOSE n \in RandomNonces : TRUE

\* the organization of KeySpec
KeyOrgInputs == {<<"acme", "acme-org">>}

KeyCacheProject(org_name, project_slug, project_name, mode) ==
    /\ ops < MaxOps
    /\ \E rnd \in KeysDrawn(mode) :
          LET r == cache_project(config, org_name, project_slug, project_name,
                                 keyring, file, mode, rnd, KeyNonce, "ok")
          IN  /\ config' = AfterCall(r.ret, r.config)
              /\ keyring' = r.keyring
              /\ file' = r.file
              /\ last' = WithMode(Call("cache_project", org_name, project_slug,
                                       project_name, "",
                                       org_name \in Organizations, r.ret), mode)
    /\ ops' = ops + 1

KeyGetProject(name, slug, mode) ==
    /\ name \in Organizations
    /\ \E rnd \in KeysDrawn(mode) :
          LET r == get_project(config.organizations[name], slug, keyring, mode, rnd)
          IN  /\ config' = AfterCall(r.ret, config)
              /\ keyring' = r.keyring
              /\ last' = WithMode(Call("get_project", name, slug, << >>, "",
                                       has_project(config.organizations[name], slug),
                                       r.ret), mode)
    /\ UNCHANGED <<file, ops>>

\* something other than get_project_key writes the device-key entry
ForeignKey(text) ==
    /\ ops < MaxOps
    /\ keyring' = [keyring EXCEPT ![DeviceEntry] = Stored(text)]
    /\ last' = WithMode(Call("foreign_key", "", "", << >>, "",
                             keyring[DeviceEntry].present, Ok(Unit)), "ok")
    /\ ops' = ops + 1
    /\ UNCHANGED <<config, file>>

KeyNext ==
    \/ \E in \in KeyOrgInputs : AddOrganization(in[1], in[2])
    \/ \E n \in OrgNames, s \in ProjectSlugs, p \in ProjectNames, m \in StoreModes :
          KeyCacheProject(n, s, p, m)
    \/ \E n \in OrgNames, s \in ProjectSlugs, m \in StoreModes : KeyGetProject(n, s, m)
    \/ \E n \in OrgNames, s \in ProjectSlugs : AddProject(n, s)
    \/ \E io \in LoadModes : LoadConfig(io)
    \/ \E t \in ForeignKeyTexts : ForeignKey(t)

KeySpec == Init /\ [][KeyNext]_vars

\* two consecutive calls of get_project_key with the secret store answering:
\* when the first returns a key, the second returns the same key and leaves
\* the store as the first left it, whatever the random generator draws
SameKeyTwice ==
    \A rnd1 \in RandomKeys, rnd2 \in RandomKeys :
        LET first == get_project_key(keyring, "ok", rnd1)
            second == get_project_key(first.keyring, "ok", rnd2)
        IN  first.ret.tag = "Ok" =>
                /\ second.ret = first.ret
                /\ second.keyring = first.keyring

\* a call made while the secret store answers leaves a stored device key as
\* it is
KeyKept ==
    (/\ last'.op \in KeyCalls
     /\ last'.mode = "ok"
     /\ keyring[DeviceEntry].present)
        => keyring'[DeviceEntry] = keyring[DeviceEntry]

\* C13: with the secret store answering, two consecutive calls of
\* get_project_key return the same bytes, and no call replaces a device key
\* that is stored.
C13_KeyStable == []SameKeyTwice /\ [][KeyKept]_vars

\* a name cached in one call is read back in a later call with the secret
\* store answering, the device key having been generated by this program
C13_Witness ==
    /\ last.op = "get_project"
    /\ last.mode = "ok"
    /\ last.ret = Some(Ok(<<87, 233>>))
    /\ KeyStored
    /\ KeyNow \in RandomKeys

\* C14: the device-key entry is written only when it was absent: a key that
\* is stored is never written over.
C14_GenerateOnlyWhenAbsent ==
    [][keyring'[DeviceEntry] # keyring[DeviceEntry] => ~keyring[DeviceEntry].present]_vars

\* C15: a call that obtains the device key does not panic, whatever the
\* device-key entry holds.
C15_WrongLengthIsError ==
    last.op \in KeyCalls => last.ret.tag # "Panic"

---------------------------------------------------------------------------
(* Authentication tokens.  TokenSpec follows Organization::get_auth_token  *)
(* and set_auth_token on organizations built by Organization::new, which   *)
(* hold the handle of their token entry, and by Config::add_organization,  *)
(* which hold none; last.mode is the secret store's mode during the call.  *)

\* the caller builds an organization with Organization::new and puts it in
\* the public map of the Config
NewOrganization(name, slug) ==
    /\ ops < MaxOps
    /\ config' = [organizations |->
                    Insert(config.organizations, name, OrganizationNew(name, slug))]
    /\ last' = WithMode(Call("new_organization", name, slug, << >>, "",
                             name \in Organizations, Ok(Unit)), "ok")
    /\ ops' = ops + 1
    /\ UNCHANGED <<file, keyring>>

TokSetAuthToken(name, token, mode) ==
    /\ ops < MaxOps
    /\ name \in Organizations
    /\ LET r == set_auth_token(config.organizations[name], token, keyring, mode)
       IN  /\ keyring' = r.keyring
           /\ last' = WithMode(Call("set_auth_token", name, "", << >>, token, TRUE,
                                    r.ret), mode)
    /\ ops' = ops + 1
    /\ UNCHANGED <<config, file>>

TokGetAuthToken(name, mode) ==
    /\ name \in Organizations
    /\ last' = WithMode(Call("get_auth_token", name, "", << >>, "", TRUE,
                             get_auth_token(config.organizations[name], keyring, mode)),
                        mode)
    /\ UNCHANGED <<config, file, keyring, ops>>

TokenNext ==
    \/ \E in \in OrgInputs : NewOrganization(in[1], in[2])
    \/ \E in \in OrgInputs : AddOrganization(in[1], in[2])
    \/ \E n \in OrgNames, t \in Tokens, m \in StoreModes : TokSetAuthToken(n, t, m)
    \/ \E n \in OrgNames, m \in StoreModes : TokGetAuthToken(n, m)

TokenSpec == Init /\ [][TokenNext]_vars

\* the organization of the last call holds the handle of its token entry
LastHasHandle == config.organizations[last.org].keyring.some

\* C16: get_auth_token on an organization whose token entry holds nothing
\* returns Ok(None), whatever the secret store answers.
C16_NoTokenIsNone ==
    (/\ last.op = "get_auth_token"
     /\ ~keyring[TokenEntry(last.org)].present)
        => last.ret = Ok(None)

\* the organization holds its handle, the store answers, the entry is absent
C16_Witness ==
    /\ last.op = "get_auth_token"
    /\ LastHasHandle
    /\ last.mode = "ok"
    /\ ~keyring[TokenEntry(last.org)].present
    /\ last.ret = Ok(None)

\* the secret store failed during the last call: the call reached the store
\* and the request it made was not served
StoreFailed ==
    /\ last.op \in {"get_auth_token", "set_auth_token"}
    /\ LastHasHandle
    /\ \/ last.op = "get_auth_token" /\ last.mode # "ok"
       \/ last.op = "set_auth_token" /\ last.mode = "unavailable"

\* C17: a secret-store failure during get_auth_token or set_auth_token is
\* returned as an error.
C17_StoreFailureIsError == StoreFailed => last.ret.tag = "Err"

---------------------------------------------------------------------------
(* cache_project on an organization that is not in the Config *)

\* C18: a cache_project call for an organization name that is not in the
\* Config returns Ok and leaves the Config, the file and the secret store as
\* they were.
C18_CacheUnknownOrgNoOp ==
    [][(last'.op = "cache_project" /\ ~last'.had)
          => /\ last'.ret = Ok(Unit)
             /\ UNCHANGED <<config, file, keyring>>]_vars

\* the call was made on a Config that holds another organization, with no
\* device key stored yet
C18_Witness ==
    /\ last.op = "cache_project"
    /\ ~last.had
    /\ last.ret = Ok(Unit)
    /\ Organizations # {}
    /\ ~KeyStored

---------------------------------------------------------------------------
(* Project names in the file *)

\* the name texts of the project entries in the file
FileNameTexts ==
    {file.doc.organizations[n].projects[s].name :
        <<n, s>> \in {x \in OrgNames \X ProjectSlugs :
                        /\ x[1] \in DOMAIN file.doc.organizations
                        /\ x[2] \in DOMAIN file.doc.organizations[x[1]].projects}}

\* the text is the base64 text of nonce||ciphertext: it decodes to a blob
\* that holds a nonce followed by a sealed text, which is at least a tag
SealedText(text) ==
    LET blob == Decode(text)
    IN  /\ Base64Valid(text)
        /\ blob.tag = "Ok"
        /\ Encode(blob.val) = text
        /\ Len(blob.val) >= NONCEBYTES + MACBYTES

\* C19: in a written file, the name field of every project entry is the
\* base64 text of nonce||ciphertext.
C19_NamesAreSealedText ==
    file.state = "written" => \A text \in FileNameTexts : SealedText(text)

\* the text is the base64 text of a blob that is empty (an entry of
\* add_project) or holds a nonce followed by a sealed text
BlobText(text) == text = << >> \/ SealedText(text)

\* the name text in the file of the entry that the last call cached
CachedText == file.doc.organizations[last.org].projects[last.slug].name

\* What does hold of the file: the name field of every project entry is the
\* base64 text of the entry's blob, which is empty for an entry made by
\* add_project and nonce||ciphertext otherwise; after cache_project returned
\* Ok the text of its entry is the base64 text of the nonce followed by the
\* name sealed under the device key, and neither the name's bytes nor their
\* base64 text.
NamesAreBlobText ==
    /\ file.state = "written" => \A text \in FileNameTexts : BlobText(text)
    /\ (CachedOk /\ file.state = "written") =>
          /\ \E n \in RandomNonces : CachedText = Encode(Encrypt(last.name, n, KeyNow))
          /\ CachedText # Utf8Encode(last.name)
          /\ CachedText # Encode(Utf8Encode(last.name))

\* a name of three UTF-8 bytes was cached and is in the file as 60 characters
CachedNameInFile ==
    /\ CachedOk
    /\ file.state = "written"
    /\ last.name = <<87, 233>>
    /\ Len(CachedText) = Base64OutLen(NONCEBYTES + MACBYTES + 3)

---------------------------------------------------------------------------
(* Two invocations of the command-line tool at once.  In RaceSpec each     *)
(* invocation is a process of its own: Cli::run loads the Config, the      *)
(* command changes it, and save() writes it back; config maps an           *)
(* invocation to the Config it holds, and last holds each invocation's     *)
(* position and the invocation whose write ran last.  fs::write is two     *)
(* system calls, the open that truncates the file and the write of the     *)
(* text at offset 0 of the writer's own descriptor, and the processes      *)
(* interleave between them.                                                *)

Invocations == {1, 2}

RECURSIVE SumOver(_, _)
SumOver(S, f) ==
    IF S = {} THEN 0
    ELSE LET x == CHOOSE y \in S : TRUE IN f[x] + SumOver(S \ {x}, f)

\* the number of bytes of the pretty-printed JSON text of a document
\* (two-space indentation, one member per line, "{}" for an empty map)
DocLen(doc) ==
    LET ProjectLen(j) == 68 + 2 * Len(j.slug) + Len(j.name)
        ProjectsLen(ps) ==
            IF DOMAIN ps = {} THEN 0
            ELSE 6 + SumOver(DOMAIN ps, [s \in DOMAIN ps |-> ProjectLen(ps[s])])
        OrgLen(o) == 74 + 2 * Len(o.name) + Len(o.slug) + ProjectsLen(o.projects)
        orgs == doc.organizations
    IN  25 + (IF DOMAIN orgs = {} THEN 0
              ELSE 2 + SumOver(DOMAIN orgs, [n \in DOMAIN orgs |-> OrgLen(orgs[n])]))

\* the number of bytes in the file
FileLen(f) == IF f.state = "written" THEN DocLen(f.doc) ELSE 0

\* a document followed by the last bytes of a longer text that was in the
\* file before: it does not parse
GarbledFile == [state |-> "garbled", doc |-> EmptyMap]

\* write(2) of a whole text at offset 0 of a file that holds f
WriteAtStart(doc, f) == IF DocLen(doc) >= FileLen(f) THEN Written(doc) ELSE GarbledFile

\* the file before the two invocations start: none, or the one left by
\* "org add acme acme-org"
RaceFiles ==
    {NoFile, Written(SerializeConfig(add_organization(ConfigDefault, "acme", "acme-org")))}

RaceInit ==
    /\ config = [p \in Invocations |-> ConfigDefault]
    /\ file \in RaceFiles
    /\ keyring = [e \in Entries |-> NoEntry]
    /\ last = [pc |-> [p \in Invocations |-> "start"], saved |-> 0]
    /\ ops = 0

At(p, where) == last.pc[p] = where
Goto(p, where) == [last EXCEPT !.pc[p] = where]

\* Cli::run: let mut config = Config::load()?
RaceLoad(p) ==
    /\ At(p, "start")
    /\ LET r == Load(file, "ok")
       IN  IF r.tag = "Ok"
           THEN /\ config' = [config EXCEPT ![p] = r.val]
                /\ last' = Goto(p, "loaded")
           ELSE /\ last' = Goto(p, "failed")
                /\ UNCHANGED config
    /\ UNCHANGED <<file, keyring, ops>>

\* OrgCommands::Add: config.add_organization(name, slug)
RaceAddOrganization(p, name, slug) ==
    /\ At(p, "loaded")
    /\ config' = [config EXCEPT ![p] = add_organization(@, name, slug)]
    /\ last' = Goto(p, "mutated")
    /\ UNCHANGED <<file, keyring, ops>>

\* cache_project up to its call of save: the key is obtained, the name is
\* sealed and the entry is inserted
RaceCacheProject(p, org_name, project_slug, project_name) ==
    /\ At(p, "loaded")
    /\ org_name \in DOMAIN config[p].organizations
    /\ \E rnd \in KeysDrawn("ok") :
          LET key == get_project_key(keyring, "ok", rnd)
              combined == Encrypt(project_name, KeyNonce, key.ret.val)
              org == config[p].organizations[org_name]
          IN  /\ key.ret.tag = "Ok"
              /\ config' = [config EXCEPT ![p] =
                              [organizations |->
                                  [@.organizations EXCEPT ![org_name].projects =
                                      Insert(org.projects, project_slug,
                                             EncryptedProject(combined, project_slug))]]]
              /\ keyring' = key.keyring
    /\ last' = Goto(p, "mutated")
    /\ UNCHANGED <<file, ops>>

\* fs::write, first call: File::create opens the file and truncates it
RaceOpen(p) ==
    /\ At(p, "mutated")
    /\ file' = EmptyFile
    /\ last' = Goto(p, "opened")
    /\ UNCHANGED <<config, keyring, ops>>

\* fs::write, second call: write_all writes the serialized Config
RaceWrite(p) ==
    /\ At(p, "opened")
    /\ file' = WriteAtStart(SerializeConfig(config[p]), file)
    /\ last' = [Goto(p, "done") EXCEPT !.saved = p]
    /\ UNCHANGED <<config, keyring, ops>>

RaceNext ==
    \E p \in Invocations :
        \/ RaceLoad(p)
        \/ \E in \in OrgInputs : RaceAddOrganization(p, in[1], in[2])
        \/ \E n \in OrgNames, s \in ProjectSlugs, m \in ProjectNames :
              RaceCacheProject(p, n, s, m)
        \/ RaceOpen(p)
        \/ RaceWrite(p)

RaceSpec == RaceInit /\ [][RaceNext]_vars

\* both invocations completed their command
BothDone == \A p \in Invocations : At(p, "done")

\* C20: after both invocations finished, the file holds the document of the
\* invocation whose save ran last.
C20_LastWriterWins ==
    BothDone => file = Written(SerializeConfig(config[last.saved]))


\* What does hold of the race: after both invocations finished, the file
\* holds the document of the invocation whose write ran last, or that
\* document followed by the tail of the longer text the other had written.
LastWriterOrGarbled ==
    BothDone => \/ file = Written(SerializeConfig(config[last.saved]))
                \/ file = GarbledFile

\* both finished, the file parses, and an organization that the other
\* invocation added is not in it
LostUpdate ==
    /\ BothDone
    /\ file.state = "written"
    /\ \E p \in Invocations \ {last.saved} :
          \E n \in DOMAIN config[p].organizations : n \notin DOMAIN file.doc.organizations

---------------------------------------------------------------------------
(* Two invocations that cache a project at once.  In KeyRaceSpec each      *)
(* invocation loads the Config and calls cache_project, and                *)
(* get_project_key is two calls on the secret store, get_password and,     *)
(* when that failed, set_password of a key drawn in between; the           *)
(* invocations interleave between them.  last.key maps an invocation to    *)
(* the key that get_project_key returned to it and last.stored is the      *)
(* invocation whose set_password ran last.                                 *)

KeyRaceInit ==
    /\ config = [p \in Invocations |-> ConfigDefault]
    /\ file = Written(SerializeConfig(add_organization(ConfigDefault, "acme", "acme-org")))
    /\ keyring = [e \in Entries |-> NoEntry]
    /\ last = [pc |-> [p \in Invocations |-> "start"], saved |-> 0,
               key |-> [p \in Invocations |-> << >>], stored |-> 0]
    /\ ops = 0

\* get_project_key, line 140: keyring.get_password(); on Ok the key is
\* decoded and returned, on Err a key is drawn (lines 151-153)
KeyRaceGet(p, rnd) ==
    /\ At(p, "loaded")
    /\ LET got == get_password(keyring, DeviceEntry, "ok")
           key_bytes == Decode(got.val)
       IN  IF got.tag = "Ok"
           THEN IF key_bytes.tag = "Ok" /\ Len(key_bytes.val) = PROJECT_KEY_LENGTH
                THEN last' = [Goto(p, "keyed") EXCEPT !.key[p] = key_bytes.val]
                ELSE last' = Goto(p, "failed")
           ELSE last' = [Goto(p, "generated") EXCEPT !.key[p] = rnd]
    /\ UNCHANGED <<config, file, keyring, ops>>

\* get_project_key, line 154: keyring.set_password(&key_str)?
KeyRaceSet(p) ==
    /\ At(p, "generated")
    /\ LET set == set_password(keyring, DeviceEntry, Encode(last.key[p]), "ok")
       IN  /\ keyring' = set.keyring
           /\ last' = IF set.ret.tag = "Ok"
                      THEN [Goto(p, "keyed") EXCEPT !.stored = p]
                      ELSE Goto(p, "failed")
    /\ UNCHANGED <<config, file, ops>>

\* cache_project, lines 191-204: the name is sealed under the key obtained
\* and the entry is inserted
KeyRaceInsert(p, org_name, project_slug, project_name) ==
    /\ At(p, "keyed")
    /\ org_name \in DOMAIN config[p].organizations
    /\ LET combined == Encrypt(project_name, KeyNonce, last.key[p])
           org == config[p].organizations[org_name]
       IN  config' = [config EXCEPT ![p] =
                        [organizations |->
                            [@.organizations EXCEPT ![org_name].projects =
                                Insert(org.projects, project_slug,
                                       EncryptedProject(combined, project_slug))]]]
    /\ last' = Goto(p, "mutated")
    /\ UNCHANGED <<file, keyring, ops>>

KeyRaceNext ==
    \E p \in Invocations :
        \/ RaceLoad(p)
        \/ \E rnd \in RandomKeys : KeyRaceGet(p, rnd)
        \/ KeyRaceSet(p)
        \/ \E n \in OrgNames, s \in ProjectSlugs, m \in ProjectNames :
              KeyRaceInsert(p, n, s, m)
        \/ RaceOpen(p)
        \/ RaceWrite(p)

KeyRaceSpec == KeyRaceInit /\ [][KeyRaceNext]_vars

\* invocation p has cached its project
Cached(p) == last.pc[p] \in {"mutated", "opened", "done"}

\* what get_project returns for the project that invocation p cached, with
\* the secret store answering
RaceProjectRead(p) ==
    get_project(config[p].organizations["acme"], "web", keyring, "ok", AnyKey).ret

\* C21: the device key in the secret store is the key of the invocation whose
\* set_password ran last, and a project sealed under another key than the
\* stored one fails to decrypt.
C21_LastKeyWins ==
    /\ last.stored # 0 => keyring[DeviceEntry] = Stored(Encode(last.key[last.stored]))
    /\ \A p \in Invocations :
          (Cached(p) /\ last.key[p] # KeyNow)
              => RaceProjectRead(p) = Some(Err("Failed to decrypt project name"))

\* both invocations generated a key, the keys differ, both finished, and the
\* project of the invocation whose key was written over does not decrypt
C21_Witness ==
    /\ BothDone
    /\ last.key[1] # last.key[2]
    /\ \E p \in Invocations \ {last.stored} :
          /\ last.key[p] \in RandomKeys
          /\ last.key[p] # KeyNow
          /\ RaceProjectRead(p) = Some(Err("Failed to decrypt project name"))
    /\ RaceProjectRead(last.stored).val.tag = "Ok"

---------------------------------------------------------------------------
(* The commands of the command line (Cli::run).  Every command starts by   *)
(* loading the Config from the file, acts on it and returns; config holds  *)
(* the Config the command had in memory when it returned.                  *)

\* what the browser login can answer: a failure, or the organization of the
\* account together with the token that the client then holds
BrowserAnswers ==
    {Err("Authentication timed out")}
        \cup {Ok([slug |-> s, token |-> t]) : s \in {"acme-org", "beta-org"}, t \in Tokens}

\* what the password prompt can answer
PromptAnswers == {Err("Failed to read auth token")} \cup {Ok(t) : t \in Tokens}

\* the --org argument of login
OrgArgs == {None} \cup {Some(n) : n \in OrgNames}

\* the outcomes of the dashboard that monitor starts
DashboardAnswers == {Ok(Unit), Err("terminal")}

\* the orders in which a HashMap can hand out the members of S
Orders(S) ==
    {s \in [1..Cardinality(S) -> S] : \A i, j \in DOMAIN s : s[i] = s[j] => i = j}

Outcome(ret, c, kr, f) == [ret |-> ret, config |-> c, keyring |-> kr, file |-> f]

\* config.save()? at the end of a command: the command's outcome
saved_outcome(saved, c, kr) == Outcome(saved.ret, c, kr, saved.file)

\* org_entry.set_auth_token(token)?; config.save()?
token_outcome(set, c, f, io) ==
    IF set.ret.tag # "Ok" THEN Outcome(set.ret, c, set.keyring, f)
    ELSE saved_outcome(Save(c, f, io), c, set.keyring)

\* faulty variant of org add: the Config is not saved
org_add_unsaved(c, name, slug, kr, f, io) ==
    Outcome(Ok(Unit), add_organization(c, name, slug), kr, f)

\* Commands::Org, OrgCommands::Add
org_add(c, name, slug, kr, f, io) ==
    saved_outcome(Save(add_organization(c, name, slug), f, io),
                  add_organization(c, name, slug), kr)

\* the browser login, once the organization is in the Config
login_entry(c, org_name, token, kr, f, mode, io) ==
    token_outcome(set_auth_token(c.organizations[org_name], token, kr, mode), c, f, io)

\* faulty variant of the browser login: the organization is always added
login_browser_always_add(c, org, answer, kr, f, mode, io) ==
    IF answer.tag # "Ok" THEN Outcome(answer, c, kr, f)
    ELSE login_entry(add_organization(c, IF org.tag = "Some" THEN org.val
                                         ELSE answer.val.slug, answer.val.slug),
                     IF org.tag = "Some" THEN org.val ELSE answer.val.slug,
                     answer.val.token, kr, f, mode, io)

\* Commands::Login with --browser
login_browser(c, org, answer, kr, f, mode, io) ==
    IF answer.tag # "Ok" THEN Outcome(answer, c, kr, f)
    ELSE LET org_name == IF org.tag = "Some" THEN org.val ELSE answer.val.slug
         IN  login_entry(IF org_name \in DOMAIN c.organizations THEN c
                         ELSE add_organization(c, org_name, answer.val.slug),
                         org_name, answer.val.token, kr, f, mode, io)

\* Commands::Login without --browser
login_token(c, org, answer, kr, f, mode, io) ==
    IF org.tag # "Some"
    THEN Outcome(Err("Organization name is required for token-based login"), c, kr, f)
    ELSE IF org.val \notin DOMAIN c.organizations
    THEN Outcome(Err("Organization '" \o org.val \o "' not found. Add it first with 'org add'."),
                 c, kr, f)
    ELSE IF answer.tag # "Ok" THEN Outcome(answer, c, kr, f)
    ELSE token_outcome(set_auth_token(c.organizations[org.val], answer.val, kr, mode),
                       c, f, io)

\* the second pass of monitor: cache_project for each entry of to_cache, in
\* order, up to the first failure; cache_next takes the result r of one
\* cache_project and goes on with the rest
RECURSIVE cache_all(_, _, _, _, _, _, _, _, _, _)
RECURSIVE cache_next(_, _, _, _, _, _, _, _)
cache_next(r, rest, project_slug, project_name, mode, rnd, nonce, io) ==
    IF r.ret.tag # "Ok" THEN r
    ELSE cache_all(r.config, rest, project_slug, project_name, r.keyring, r.file,
                   mode, rnd, nonce, io)

cache_all(c, to_cache, project_slug, project_name, kr, f, mode, rnd, nonce, io) ==
    IF to_cache = << >> THEN Outcome(Ok(Unit), c, kr, f)
    ELSE cache_next(cache_project(c, Head(to_cache), project_slug, project_name,
                                  kr, f, mode, rnd, nonce, io),
                    Tail(to_cache), project_slug, project_name, mode, rnd, nonce, io)

\* the organizations monitor can log in to
LoggedIn(c, kr, mode) ==
    {n \in DOMAIN c.organizations :
        get_auth_token(c.organizations[n], kr, mode).val.tag = "Some"}

\* the first pass of monitor: the organizations whose project is to be cached
ToCache(c, project, served, kr, mode) ==
    {n \in LoggedIn(c, kr, mode) :
        /\ ~has_project(c.organizations[n], project)
        /\ c.organizations[n].slug \in served}

\* the first pass of monitor: the organizations that have the project
Matches(c, project, served, kr, mode) ==
    {n \in LoggedIn(c, kr, mode) :
        \/ has_project(c.organizations[n], project)
        \/ c.organizations[n].slug \in served}

\* monitor after its second pass: the match on matches.len()
monitor_matches(cached, matches, answer) ==
    IF cached.ret.tag # "Ok" \/ matches = {} THEN cached
    ELSE Outcome(answer, cached.config, cached.keyring, cached.file)

\* Commands::Monitor; served is the set of organizations in which the server
\* lists the project, order the order of to_cache
monitor(c, org, project, project_name, served, order, kr, f, mode, rnd, nonce, io, answer) ==
    IF org # ""
    THEN IF org \notin DOMAIN c.organizations
         THEN Outcome(Err("Organization '" \o org \o "' not found. Add it first with 'org add'."),
                      c, kr, f)
         ELSE IF get_auth_token(c.organizations[org], kr, mode).val.tag # "Some"
         THEN Outcome(Err("Not logged in for organization '" \o org \o "'. Use 'login' first."),
                      c, kr, f)
         ELSE Outcome(answer, c, kr, f)
    ELSE monitor_matches(cache_all(c, order, project, project_name, kr, f, mode, rnd,
                                   nonce, io),
                         Matches(c, project, served, kr, mode), answer)

\* a Config with one organization and one cached project, its file and the
\* secret store that goes with them
SeedConfig ==
    cache_project(add_organization(ConfigDefault, "acme", "acme-org"), "acme", "web",
                  <<87, 233>>, [e \in Entries |-> NoEntry], NoFile, "ok", AnyKey,
                  KeyNonce, "ok")

CliInit ==
    /\ config = ConfigDefault
    /\ \/ /\ file = NoFile
          /\ keyring = [e \in Entries |-> NoEntry]
       \/ /\ file = SeedConfig.file
          /\ keyring = SeedConfig.keyring
    /\ last = Call("init", "", "", << >>, "", FALSE, Ok(Unit))
    /\ ops = 0

\* let config = Config::load()?; then the command
Run(op, org, slug, loaded, r) ==
    /\ ops < MaxOps
    /\ IF loaded.tag # "Ok"
       THEN /\ config' = ConfigDefault
            /\ last' = Call(op, org, slug, << >>, "", FALSE, loaded)
            /\ UNCHANGED <<file, keyring>>
       ELSE /\ config' = AfterCall(r.ret, r.config)
            /\ keyring' = r.keyring
            /\ file' = r.file
            /\ last' = Call(op, org, slug, << >>, "",
                            org \in DOMAIN loaded.val.organizations, r.ret)
    /\ ops' = ops + 1

\* the environment's answers matter only to the calls that ask for them: the
\* file system once the Config is loaded, the secret store once an
\* organization holds a handle
SaveAnswers(loaded) == IF loaded.tag = "Ok" THEN SaveModes ELSE {"ok"}

StoreAnswers(loaded) ==
    IF /\ loaded.tag = "Ok"
       /\ \E n \in DOMAIN loaded.val.organizations :
              loaded.val.organizations[n].keyring.some
    THEN StoreModes
    ELSE {"ok"}

\* the Config a command works on; a command whose load failed never gets to
\* work
Started(loaded) == IF loaded.tag = "Ok" THEN loaded.val ELSE ConfigDefault

CliOrgAdd(name, slug) ==
    \E lio \in LoadModes : \E loaded \in {Load(file, lio)} :
    \E io \in SaveAnswers(loaded) :
    \E r \in {org_add(Started(loaded), name, slug, keyring, file, io)} :
        Run("org_add", name, slug, loaded, r)

CliLoginBrowser(org, answer) ==
    \E lio \in LoadModes : \E loaded \in {Load(file, lio)} :
    \E io \in SaveAnswers(loaded) : \E mode \in StoreAnswers(loaded) :
    \E r \in {login_browser(Started(loaded), org, answer, keyring, file, mode, io)} :
        Run("login_browser",
            IF answer.tag # "Ok" THEN ""
            ELSE IF org.tag = "Some" THEN org.val ELSE answer.val.slug,
            IF answer.tag = "Ok" THEN answer.val.slug ELSE "", loaded, r)

CliLoginToken(org, answer) ==
    \E lio \in LoadModes : \E loaded \in {Load(file, lio)} :
    \E io \in SaveAnswers(loaded) : \E mode \in StoreAnswers(loaded) :
    \E r \in {login_token(Started(loaded), org, answer, keyring, file, mode, io)} :
        Run("login_token", IF org.tag = "Some" THEN org.val ELSE "", "", loaded, r)

CliMonitor(org, project) ==
    \E lio \in LoadModes : \E loaded \in {Load(file, lio)} :
    \E c \in {Started(loaded)} :
    \E served \in {{}, OrgSlugs} : \E answer \in DashboardAnswers :
    \E mode \in StoreAnswers(loaded) :
    \E order \in Orders(ToCache(c, project, served, keyring, mode)) :
    \E io \in (IF order # << >> THEN SaveModes ELSE {"ok"}) :
    \E rnd \in (IF order # << >> THEN KeysDrawn(mode) ELSE {AnyKey}) :
    \E r \in {monitor(c, org, project, <<87, 233>>, served, order, keyring, file,
                      mode, rnd, KeyNonce, io, answer)} :
        Run("monitor", org, project, loaded, r)

CliNext ==
    \/ \E in \in OrgInputs : CliOrgAdd(in[1], in[2])
    \/ \E org \in OrgArgs : \E answer \in BrowserAnswers : CliLoginBrowser(org, answer)
    \/ \E org \in OrgArgs : \E answer \in PromptAnswers : CliLoginToken(org, answer)
    \/ \E org \in OrgNames \cup {""} : \E project \in ProjectSlugs : CliMonitor(org, project)

CliSpec == CliInit /\ [][CliNext]_vars

\* the commands that change the Config
Mutating == {"org_add", "login_browser", "login_token", "monitor"}

\* the file holds the serialization of the Config in memory
FileIsConfig ==
    IF file.state = "absent" THEN config = ConfigDefault
    ELSE file = Written(SerializeConfig(config))

\* C22: after a command that changes the Config and completes successfully,
\* the file on disk is the serialization of the Config in memory.
C22_FileIsConfigAfterCommand ==
    (last.op \in Mutating /\ last.ret = Ok(Unit)) => FileIsConfig

\* a browser login added an organization to a Config that had another one,
\* and the file holds both
C22_Witness ==
    /\ last.op = "login_browser"
    /\ last.ret = Ok(Unit)
    /\ ~last.had
    /\ Cardinality(DOMAIN config.organizations) = 2
    /\ file = Written(SerializeConfig(config))


\* the organizations that a browser login found in the file
LoadedOrganizations == Load(file, "ok").val.organizations

---------------------------------------------------------------------------
(* IssueViewer: the scroll offset.  config holds the viewer.               *)

\* u16::MAX
U16_MAX == 65535

\* the two kinds of build: with overflow checks (debug) and without (release)
Builds == {"debug", "release"}

\* IssueViewer::new
IssueViewerNew == [scroll_offset |-> 0]

\* IssueViewer::scroll_up: the result and the viewer afterwards
scroll_up(v) ==
    [ret |-> Ok(Unit),
     viewer |-> IF v.scroll_offset > 0
                THEN [v EXCEPT !.scroll_offset = @ - 1]
                ELSE v]

\* IssueViewer::scroll_down: u16 += 1 panics on overflow in a build with
\* overflow checks and wraps in a build without
scroll_down(v, build) ==
    IF v.scroll_offset + 1 > U16_MAX /\ build = "debug"
    THEN [ret |-> Panic("attempt to add with overflow"), viewer |-> v]
    ELSE [ret |-> Ok(Unit),
          viewer |-> [v EXCEPT !.scroll_offset = (@ + 1) % (U16_MAX + 1)]]

ViewerInit ==
    /\ config = IssueViewerNew
    /\ file = NoFile
    /\ keyring = [e \in Entries |-> NoEntry]
    /\ last = Call("new", "", "", << >>, "", FALSE, Ok(Unit))
    /\ ops = 0

\* key 'j' in IssueViewer::show
ScrollDown ==
    /\ last.ret.tag # "Panic"
    /\ \E build \in Builds :
          LET r == scroll_down(config, build)
          IN  /\ config' = r.viewer
              /\ last' = Call("scroll_down", "", "", << >>, "", FALSE, r.ret)
    /\ UNCHANGED <<file, keyring, ops>>

\* key 'k' in IssueViewer::show
ScrollUp ==
    /\ last.ret.tag # "Panic"
    /\ LET r == scroll_up(config)
       IN  /\ config' = r.viewer
           /\ last' = Call("scroll_up", "", "", << >>, "", FALSE, r.ret)
    /\ UNCHANGED <<file, keyring, ops>>

ViewerNext == ScrollDown \/ ScrollUp

ViewerSpec == ViewerInit /\ [][ViewerNext]_vars

\* C23: scroll_offset starts at 0, each scroll_down adds exactly 1, each
\* scroll_up subtracts 1 unless the offset is 0, where it stays 0; the u16
\* offset never underflows or overflows.
C23_ScrollOffset ==
    /\ [](last.op = "new" => config.scroll_offset = 0)
    /\ [](config.scroll_offset \in 0..U16_MAX /\ last.ret.tag # "Panic")
    /\ [][/\ last'.op = "scroll_down"
             => config'.scroll_offset = config.scroll_offset + 1
          /\ last'.op = "scroll_up"
             => config'.scroll_offset
                  = IF config.scroll_offset = 0 THEN 0 ELSE config.scroll_offset - 1]_vars

\* short of the last value of u16 every scroll_down adds exactly 1, and every
\* scroll_up subtracts 1 or stays at 0
ScrollBelowMax ==
    [][/\ (last'.op = "scroll_down" /\ config.scroll_offset < U16_MAX)
             => (config'.scroll_offset = config.scroll_offset + 1 /\ last'.ret = Ok(Unit))
       /\ last'.op = "scroll_up"
             => config'.scroll_offset
                  = IF config.scroll_offset = 0 THEN 0 ELSE config.scroll_offset - 1]_vars

\* scroll_down at the last value of u16 wrapped the offset to 0
ScrollWrapped == last.op = "scroll_down" /\ config.scroll_offset = 0

\* scroll_down at the last value of u16 ended the process
ScrollPanicked == last.ret.tag = "Panic"

---------------------------------------------------------------------------
(* SentryClient::list_projects.  config holds the client's token and the   *)
(* answer the server gives to the request; text is a sequence of ASCII     *)
(* codes.                                                                  *)

\* the longest response body
MaxProjects == 3

\* the projects a response is made of: "Test", "another", "Api", "api"
ServerProjects ==
    {[slug |-> "test-project", name |-> <<84, 101, 115, 116>>],
     [slug |-> "another-project", name |-> <<97, 110, 111, 116, 104, 101, 114>>],
     [slug |-> "api-v1", name |-> <<65, 112, 105>>],
     [slug |-> "api-v2", name |-> <<97, 112, 105>>]}

ResponseBodies == UNION {[1..n -> ServerProjects] : n \in 0..MaxProjects}

\* what the request can come to
Responses ==
    {[kind |-> k, body |-> << >>] : k \in {"send_failed", "status_401", "bad_json"}}
        \cup {[kind |-> "success", body |-> b] : b \in ResponseBodies}

\* str::to_lowercase on ASCII text
to_lowercase(s) == [i \in DOMAIN s |-> IF s[i] \in 65..90 THEN s[i] + 32 ELSE s[i]]

\* Ord for str: a is less than b, byte by byte
RECURSIVE StrLess(_, _)
StrLess(a, b) ==
    IF b = << >> THEN FALSE
    ELSE IF a = << >> THEN TRUE
    ELSE IF Head(a) # Head(b) THEN Head(a) < Head(b)
    ELSE StrLess(Tail(a), Tail(b))

\* the comparison list_projects sorts by
NameLess(p, q) == StrLess(to_lowercase(p.name), to_lowercase(q.name))

\* a stable sort by name: each project goes in after those not greater
RECURSIVE SortIn(_, _)
SortIn(sorted, p) ==
    IF sorted = << >> THEN <<p>>
    ELSE IF NameLess(p, Head(sorted)) THEN <<p>> \o sorted
    ELSE <<Head(sorted)>> \o SortIn(Tail(sorted), p)

RECURSIVE sort_by_name(_)
sort_by_name(projects) ==
    IF projects = << >> THEN << >>
    ELSE SortIn(sort_by_name(SubSeq(projects, 1, Len(projects) - 1)),
                projects[Len(projects)])

\* SentryClient::list_projects: one request (the cursor is never set), then
\* the sort by lowercased name
list_projects(auth_token, response) ==
    IF auth_token.tag # "Some"
    THEN Err("Not authenticated. Please set the auth token first.")
    ELSE IF response.kind = "send_failed" THEN Err("Failed to send request")
    ELSE IF response.kind = "status_401" THEN Err("API request failed: 401")
    ELSE IF response.kind = "bad_json" THEN Err("Failed to parse response")
    ELSE Ok(sort_by_name(response.body))

ListInit ==
    /\ \E token \in {None} \cup {Some(t) : t \in Tokens} : \E response \in Responses :
          config = [auth_token |-> token, response |-> response]
    /\ file = NoFile
    /\ keyring = [e \in Entries |-> NoEntry]
    /\ last = Call("new", "", "", << >>, "", FALSE, Ok(Unit))
    /\ ops = 0

ListProjects ==
    /\ last.op = "new"
    /\ last' = Call("list_projects", "", "", << >>, "", FALSE,
                    list_projects(config.auth_token, config.response))
    /\ UNCHANGED <<config, file, keyring, ops>>

ListNext == ListProjects

ListSpec == ListInit /\ [][ListNext]_vars

\* list_projects was called with a token and the server answered with success
Listed ==
    /\ last.op = "list_projects"
    /\ config.auth_token.tag = "Some"
    /\ config.response.kind = "success"

\* C24: on a successful response list_projects returns every project of the
\* response, in the order the server returned them.
C24_ServerOrder == Listed => last.ret = Ok(config.response.body)

\* how many times p occurs in the sequence s
Occurrences(s, p) == Cardinality({i \in DOMAIN s : s[i] = p})

\* on a successful response list_projects returns every project of the
\* response, as many times as the response has it, in the order of the
\* lowercased names, and projects of equal lowercased name in server order
ListedByName ==
    Listed =>
        /\ last.ret.tag = "Ok"
        /\ \A p \in ServerProjects :
              Occurrences(last.ret.val, p) = Occurrences(config.response.body, p)
        /\ \A i, j \in DOMAIN last.ret.val :
              i < j => ~NameLess(last.ret.val[j], last.ret.val[i])
        /\ \A p, q \in ServerProjects :
              (to_lowercase(p.name) = to_lowercase(q.name) /\ p # q)
                 => LET Only(s) == SelectSeq(s, LAMBDA x : x \in {p, q})
                    IN  Only(last.ret.val) = Only(config.response.body)

\* the server answered "Test" before "another" and list_projects returned
\* them the other way round
ListedOutOfServerOrder ==
    /\ Listed
    /\ Len(config.response.body) = 2
    /\ config.response.body[1].slug = "test-project"
    /\ config.response.body[2].slug = "another-project"
    /\ last.ret.val[1].slug = "another-project"

---------------------------------------------------------------------------
(* Dashboard::run.  config holds the dashboard and the terminal it drives, *)
(* last the place run has reached and, once it returned, its result.       *)

\* the lists the server can answer list_issues with; an issue is its id and
\* its event count
Issue(id, count) == [id |-> id, count |-> count]

IssueLists ==
    {<< >>,
     <<Issue(1, 4)>>,
     <<Issue(1, 5), Issue(2, 9), Issue(3, 5)>>,
     [i \in 1..12 |-> Issue(i, i % 4)]}

ListIssuesAnswers == {Err("Failed to send request")} \cup {Ok(l) : l \in IssueLists}

\* the terminal calls either work or fail
TerminalAnswers == {"ok", "failed"}

\* the keys run tells apart
Keys == {"q", "Up", "Down", "other"}

\* a stable sort by falling count: each issue goes in after those not smaller
RECURSIVE CountSortIn(_, _)
CountSortIn(sorted, x) ==
    IF sorted = << >> THEN <<x>>
    ELSE IF x.count > Head(sorted).count THEN <<x>> \o sorted
    ELSE <<Head(sorted)>> \o CountSortIn(Tail(sorted), x)

RECURSIVE sort_by_count(_)
sort_by_count(issues) ==
    IF issues = << >> THEN << >>
    ELSE CountSortIn(sort_by_count(SubSeq(issues, 1, Len(issues) - 1)),
                     issues[Len(issues)])

\* Iterator::take
take(s, n) == SubSeq(s, 1, IF Len(s) < n THEN Len(s) ELSE n)

Terminal(raw, alternate, hidden) ==
    [raw |-> raw, alternate |-> alternate, cursor_hidden |-> hidden]

\* Dashboard::new, with the terminal as the shell leaves it
DashboardNew ==
    [issues |-> << >>, selected_index |-> 0, terminal |-> Terminal(FALSE, FALSE, FALSE)]

\* Dashboard::update_issues
update_issues(d, answer) ==
    IF answer.tag # "Ok" THEN [ret |-> answer, dashboard |-> d]
    ELSE [ret |-> Ok(Unit),
          dashboard |-> [d EXCEPT !.issues = take(sort_by_count(answer.val), 10)]]

\* Dashboard::move_selection_up
move_selection_up(d) ==
    IF d.selected_index > 0 THEN [d EXCEPT !.selected_index = @ - 1] ELSE d

\* Dashboard::move_selection_down
move_selection_down(d) ==
    IF d.issues # << >> /\ d.selected_index < Len(d.issues) - 1
    THEN [d EXCEPT !.selected_index = @ + 1]
    ELSE d

\* Dashboard::setup_terminal
setup_terminal(d, raw_mode, execute) ==
    IF raw_mode # "ok" THEN [ret |-> Err("enable_raw_mode"), dashboard |-> d]
    ELSE IF execute # "ok"
    THEN [ret |-> Err("execute"), dashboard |-> [d EXCEPT !.terminal.raw = TRUE]]
    ELSE [ret |-> Ok(Unit), dashboard |-> [d EXCEPT !.terminal = Terminal(TRUE, TRUE, TRUE)]]

\* Dashboard::cleanup_terminal
cleanup_terminal(d, execute, raw_mode) ==
    IF execute # "ok" THEN [ret |-> Err("execute"), dashboard |-> d]
    ELSE IF raw_mode # "ok"
    THEN [ret |-> Err("disable_raw_mode"),
          dashboard |-> [d EXCEPT !.terminal = Terminal(TRUE, FALSE, FALSE)]]
    ELSE [ret |-> Ok(Unit),
          dashboard |-> [d EXCEPT !.terminal = Terminal(FALSE, FALSE, FALSE)]]

Reached(pc, ret) == [pc |-> pc, ret |-> ret]

DashInit ==
    /\ config = DashboardNew
    /\ file = NoFile
    /\ keyring = [e \in Entries |-> NoEntry]
    /\ last = Reached("new", Ok(Unit))
    /\ ops = 0

\* the place run goes to after a call: on, or out with the error
Proceed(ret, pc) == IF ret.tag = "Ok" THEN Reached(pc, Ok(Unit)) ELSE Reached("returned", ret)

\* run: self.setup_terminal()?
DashSetup ==
    /\ last.pc = "new"
    /\ \E raw_mode \in TerminalAnswers : \E execute \in TerminalAnswers :
          LET r == setup_terminal(config, raw_mode, execute)
          IN  /\ config' = r.dashboard
              /\ last' = Proceed(r.ret, "update")
    /\ UNCHANGED <<file, keyring, ops>>

\* run: if last_update.elapsed() >= update_interval { self.update_issues()? }
DashUpdate ==
    /\ last.pc = "update"
    /\ \/ /\ last' = Reached("render", Ok(Unit))
          /\ UNCHANGED config
       \/ \E answer \in ListIssuesAnswers :
             LET r == update_issues(config, answer)
             IN  /\ config' = r.dashboard
                 /\ last' = Proceed(r.ret, "render")
    /\ UNCHANGED <<file, keyring, ops>>

\* run: self.render()?
DashRender ==
    /\ last.pc = "render"
    /\ \E execute \in TerminalAnswers :
          last' = Proceed(IF execute = "ok" THEN Ok(Unit) ELSE Err("execute"), "poll")
    /\ UNCHANGED <<config, file, keyring, ops>>

\* run: event::poll(..)?, event::read()? and the match on the key
DashPoll ==
    /\ last.pc = "poll"
    /\ \/ last' = Reached("returned", Err("poll")) /\ UNCHANGED config
       \/ last' = Reached("returned", Err("read")) /\ UNCHANGED config
       \/ last' = Reached("update", Ok(Unit)) /\ UNCHANGED config
       \/ \E key \in Keys :
             CASE key = "q" -> last' = Reached("cleanup", Ok(Unit)) /\ UNCHANGED config
               [] key = "Up" -> /\ config' = move_selection_up(config)
                                /\ last' = Reached("update", Ok(Unit))
               [] key = "Down" -> /\ config' = move_selection_down(config)
                                  /\ last' = Reached("update", Ok(Unit))
               [] OTHER -> last' = Reached("update", Ok(Unit)) /\ UNCHANGED config
    /\ UNCHANGED <<file, keyring, ops>>

\* run: self.cleanup_terminal()?; Ok(())
DashCleanup ==
    /\ last.pc = "cleanup"
    /\ \E execute \in TerminalAnswers : \E raw_mode \in TerminalAnswers :
          LET r == cleanup_terminal(config, execute, raw_mode)
          IN  /\ config' = r.dashboard
              /\ last' = Reached("returned", r.ret)
    /\ UNCHANGED <<file, keyring, ops>>

DashNext == DashSetup \/ DashUpdate \/ DashRender \/ DashPoll \/ DashCleanup

DashSpec == DashInit /\ [][DashNext]_vars

\* C25: after any sequence of refreshes and Up/Down key presses,
\* selected_index is a valid index of issues when issues is non-empty, and 0
\* when issues is empty.
C25_SelectionValid ==
    IF config.issues = << >>
    THEN config.selected_index = 0
    ELSE config.selected_index < Len(config.issues)

\* the selection stays below the ten issues update_issues keeps
SelectionBelowTen == config.selected_index < 10 /\ Len(config.issues) <= 10

\* a key press leaves a valid selection valid
KeysKeepSelection ==
    [][(last.pc = "poll" /\ C25_SelectionValid) => C25_SelectionValid']_vars

\* the dashboard is about to render a list with nothing selected in it
SelectionPastEnd ==
    /\ last.pc = "render"
    /\ config.issues # << >>
    /\ config.selected_index >= Len(config.issues)

\* C26: whenever Dashboard::run returns, with success or with an error, the
\* terminal has been restored: raw mode is disabled and the cursor is shown.
C26_TerminalRestored ==
    last.pc = "returned" => (~config.terminal.raw /\ ~config.terminal.cursor_hidden)

\* run returns Ok(()) only with the terminal restored
RestoredOnSuccess ==
    (last.pc = "returned" /\ last.ret = Ok(Unit)) => config.terminal = Terminal(FALSE, FALSE, FALSE)

\* run returned the error of a failed refresh
RefreshFailed == last.pc = "returned" /\ last.ret = Err("Failed to send request")

---------------------------------------------------------------------------
(* Frame properties of the store, under Spec *)

\* the errors Config::save returns
SaveErrors ==
    {Err("Failed to create config directory: " \o ConfigDir),
     Err("Failed to write config file: " \o ConfigPath)}

\* C27: if cache_project returns an error (the device key is unavailable, or
\* save failed), the Config in memory is unchanged.
C27_CacheErrorKeepsConfig ==
    [][(last'.op = "cache_project" /\ last'.ret.tag = "Err") => config' = config]_vars

\* if cache_project returns an error that is not an error of save, the Config
\* in memory and the file are unchanged
KeyErrorKeepsConfig ==
    [][(last'.op = "cache_project" /\ last'.ret.tag = "Err" /\ last'.ret \notin SaveErrors)
          => (config' = config /\ file' = file)]_vars

\* cache_project returned an error of save and the project is cached in
\* memory while the file does not have it
CachedInMemoryOnly ==
    /\ last.op = "cache_project"
    /\ last.ret \in SaveErrors
    /\ last.slug \in DOMAIN config.organizations[last.org].projects
    /\ file.state # "written"


\* the operations that only read
ReadCalls == {"get_organization", "has_project", "get_project", "get_auth_token"}

\* C28: the read operations never modify the Config, the file or the secret
\* store; in particular get_project never creates or replaces the device key.
C28_ReadsChangeNothing ==
    [][(last'.op \in ReadCalls /\ last'.ret.tag # "Panic")
          => UNCHANGED <<config, file, keyring>>]_vars

\* the read operations never modify the Config or the file, and
\* get_auth_token never modifies the secret store
ReadsKeepConfigAndFile ==
    [][/\ (last'.op \in ReadCalls /\ last'.ret.tag # "Panic")
             => UNCHANGED <<config, file>>
       /\ last'.op = "get_auth_token" => UNCHANGED keyring]_vars


\* every organization of c is filed under its name and every project under
\* its slug
KeyedByField(c) ==
    \A n \in DOMAIN c.organizations :
        /\ c.organizations[n].name = n
        /\ \A s \in DOMAIN c.organizations[n].projects :
              c.organizations[n].projects[s].slug = s

\* C30: in every Config reached through add_organization, cache_project,
\* add_project, save and load, each organization is stored under the key
\* equal to its name and each project under the key equal to its slug; the
\* same holds of the document in the file.
C30_KeysAreFields ==
    /\ KeyedByField(config)
    /\ file.state = "written" => KeyedByField(file.doc)

\* a Config with a project under an organization was loaded from the file
C30_Witness ==
    /\ last.op = "load"
    /\ last.ret = Ok(Unit)
    /\ file.state = "written"
    /\ \E n \in Organizations :
          /\ config.organizations[n].projects # EmptyMap
          /\ config.organizations[n].slug # n
    /\ KeyedByField(config)

=============================================================================
